---------------------------- MODULE Spec2Model ----------------------------
(***************************************************************************)
(* The security auditor of ulf-warden: the pattern catalog, the three      *)
(* collectors (filesystem, environment, process), the false-positive       *)
(* filter, the masker, the severity grouping and run_audit's exit status.  *)
(*                                                                         *)
(* Text is a sequence of one-character strings, so that slicing, case      *)
(* folding, substring search and pattern matching are computed, not        *)
(* assumed.                                                                *)
(***************************************************************************)
EXTENDS Integers, Sequences, FiniteSets, TLC

(***************************************************************************)
(* Characters and text                                                     *)
(***************************************************************************)
Upper ==
    {"A", "B", "C", "D", "E", "F", "G", "H", "I", "J", "K", "L", "M", "N", "O", "P", "Q",
    "R", "S", "T", "U", "V", "W", "X", "Y", "Z"}
Lowers ==
    {"a", "b", "c", "d", "e", "f", "g", "h", "i", "j", "k", "l", "m", "n", "o", "p", "q",
    "r", "s", "t", "u", "v", "w", "x", "y", "z"}
Digit == {"0", "1", "2", "3", "4", "5", "6", "7", "8", "9"}
Alnum == Upper \cup Lowers \cup Digit

Range(s) == {s[i] : i \in DOMAIN s}

\* str.lower() and str.upper() on the ASCII letters
LowerOf ==
    "A" :> "a" @@ "B" :> "b" @@ "C" :> "c" @@ "D" :> "d" @@ "E" :> "e" @@ "F" :> "f" @@ "G"
    :> "g" @@ "H" :> "h" @@ "I" :> "i" @@ "J" :> "j" @@ "K" :> "k" @@ "L" :> "l" @@ "M" :>
    "m" @@ "N" :> "n" @@ "O" :> "o" @@ "P" :> "p" @@ "Q" :> "q" @@ "R" :> "r" @@ "S" :> "s"
    @@ "T" :> "t" @@ "U" :> "u" @@ "V" :> "v" @@ "W" :> "w" @@ "X" :> "x" @@ "Y" :> "y" @@
    "Z" :> "z"
UpperOf ==
    "a" :> "A" @@ "b" :> "B" @@ "c" :> "C" @@ "d" :> "D" @@ "e" :> "E" @@ "f" :> "F" @@ "g"
    :> "G" @@ "h" :> "H" @@ "i" :> "I" @@ "j" :> "J" @@ "k" :> "K" @@ "l" :> "L" @@ "m" :>
    "M" @@ "n" :> "N" @@ "o" :> "O" @@ "p" :> "P" @@ "q" :> "Q" @@ "r" :> "R" @@ "s" :> "S"
    @@ "t" :> "T" @@ "u" :> "U" @@ "v" :> "V" @@ "w" :> "W" @@ "x" :> "X" @@ "y" :> "Y" @@
    "z" :> "Z"

LowerChar(c) == IF c \in Upper THEN LowerOf[c] ELSE c

UpperChar(c) == IF c \in Lowers THEN UpperOf[c] ELSE c

\* str.lower()
LowerStr(s) == [i \in DOMAIN s |-> LowerChar(s[i])]

\* Python's `sub in s`
Contains(s, sub) ==
    \E i \in 0..(Len(s) - Len(sub)) : SubSeq(s, i + 1, i + Len(sub)) = sub

\* The characters str.strip() removes and \s matches (those a TLA+ string can hold)
Whitespace == {" ", "\t", "\n", "\r", "\f"}

SetMax(S) == CHOOSE x \in S : \A y \in S : y <= x
SetMin(S) == CHOOSE x \in S : \A y \in S : x <= y

\* str.strip()
Strip(s) ==
    LET keep == {i \in DOMAIN s : s[i] \notin Whitespace}
    IN  IF keep = {} THEN <<>> ELSE SubSeq(s, SetMin(keep), SetMax(keep))

\* s[:n]
Prefix(s, n) == SubSeq(s, 1, IF Len(s) < n THEN Len(s) ELSE n)

\* s[-n:]
Suffix(s, n) == SubSeq(s, IF Len(s) < n THEN 1 ELSE Len(s) - n + 1, Len(s))

RECURSIVE Join(_, _)
\* sep.join(parts)
Join(parts, sep) ==
    IF parts = <<>> THEN <<>>
    ELSE IF Len(parts) = 1 THEN parts[1]
    ELSE parts[1] \o sep \o Join(Tail(parts), sep)

(***************************************************************************)
(* Regular expressions.  A rule's expression is a sequence of items: a     *)
(* repeated character class, an alternation of literals, or \b.  max = -1  *)
(* is an unbounded repeat.  ci is the (?i) flag.                           *)
(***************************************************************************)
Cls(chars, min, max) ==
    [kind |-> "cls", neg |-> FALSE, chars |-> chars, min |-> min, max |-> max, opts |-> {}]
NCls(chars, min, max) ==
    [kind |-> "cls", neg |-> TRUE, chars |-> chars, min |-> min, max |-> max, opts |-> {}]
Alt(opts) ==
    [kind |-> "alt", neg |-> FALSE, chars |-> {}, min |-> 1, max |-> 1, opts |-> opts]
Lit(text) == Alt({text})
WordBoundary ==
    [kind |-> "wb", neg |-> FALSE, chars |-> {}, min |-> 0, max |-> 0, opts |-> {}]

WordChar == Alnum \cup {"_"}
Quote == {"\"", "'"}
KeySep == {":", "="}
KeyChar == Alnum \cup {"_", "-"}
AnyChar(min, max) == NCls({"\n"}, min, max)

\* Whether character c is in the item's class
InClass(item, ci, c) ==
    LET hit == \/ c \in item.chars
               \/ ci /\ (LowerChar(c) \in item.chars \/ UpperChar(c) \in item.chars)
    IN  IF item.neg THEN ~hit ELSE hit

\* How many characters of s after offset i are in the item's class, at most limit
RunLength(item, ci, s, i, limit) ==
    LET stops == {j \in (i + 1)..Len(s) : ~InClass(item, ci, s[j])}
        run == IF stops = {} THEN Len(s) - i ELSE SetMin(stops) - 1 - i
    IN  IF run < limit THEN run ELSE limit

\* Whether the literal opt is at offset i of s; under (?i) the letters of both
\* are compared lower-cased
LiteralAt(opt, ci, s, i) ==
    /\ i + Len(opt) <= Len(s)
    /\ \A j \in DOMAIN opt :
          IF ci THEN LowerChar(s[i + j]) = LowerChar(opt[j]) ELSE s[i + j] = opt[j]

\* \b at offset i of s
BoundaryAt(s, i) ==
    (i > 0 /\ s[i] \in WordChar) # (i < Len(s) /\ s[i + 1] \in WordChar)

RECURSIVE MatchEnds(_, _, _, _, _)
\* The offsets where a match of items k.. of regex, begun at offset i of s, can end
MatchEnds(regex, ci, k, s, i) ==
    IF k > Len(regex) THEN {i}
    ELSE LET item == regex[k] IN
         CASE item.kind = "cls" ->
                LET cap == IF item.max = -1 THEN Len(s) ELSE item.max
                    run == RunLength(item, ci, s, i, cap)
                IN  UNION {MatchEnds(regex, ci, k + 1, s, i + n) : n \in item.min..run}
           [] item.kind = "alt" ->
                UNION {IF LiteralAt(opt, ci, s, i)
                       THEN MatchEnds(regex, ci, k + 1, s, i + Len(opt))
                       ELSE {} : opt \in item.opts}
           [] OTHER ->
                IF BoundaryAt(s, i) THEN MatchEnds(regex, ci, k + 1, s, i) ELSE {}

NoMatch == [start |-> -1, end |-> -1]

\* The match of the rule that starts at offset st.  For every rule of the
\* catalog the backtracking matcher's first parse is the longest one.
MatchAt(config, s, st) ==
    [start |-> st, end |-> SetMax(MatchEnds(config.regex, config.ci, 1, s, st))]

\* regex.search(s, pos): the leftmost match at or after offset pos
Search(config, s, pos) ==
    LET starts == {i \in pos..Len(s) : MatchEnds(config.regex, config.ci, 1, s, i) # {}}
    IN  IF starts = {} THEN NoMatch ELSE MatchAt(config, s, SetMin(starts))

RECURSIVE FindIterFrom(_, _, _)
FindIterFrom(config, s, pos) ==
    LET m == Search(config, s, pos)
    IN  IF m = NoMatch THEN <<>>
        ELSE <<m>> \o FindIterFrom(config, s, IF m.end > m.start THEN m.end ELSE m.end + 1)

\* regex.finditer(s): the non-overlapping matches, left to right
FindIter(config, s) == FindIterFrom(config, s, 0)

\* match.group(0)
Group0(s, m) == SubSeq(s, m.start + 1, m.end)

\* The regex parser accepts repeat counts below MAXREPEAT: 2^31 - 1 where
\* sizes have 32 bits, 2^32 - 1 elsewhere
MAXREPEAT == 2147483647

\* What re.compile does with the expression: the parser raises OverflowError
\* for a repeat count of MAXREPEAT or more, and re.error for a repeat whose
\* minimum exceeds its maximum
CompileOutcome(regex) ==
    IF \E k \in DOMAIN regex : regex[k].min >= MAXREPEAT \/ regex[k].max >= MAXREPEAT
    THEN "OverflowError"
    ELSE IF \E k \in DOMAIN regex : regex[k].max # -1 /\ regex[k].min > regex[k].max
         THEN "re.error"
         ELSE "ok"

\* re.compile succeeds
Compiles(regex) == CompileOutcome(regex) = "ok"

(***************************************************************************)
(* patterns.py: the catalog.  A dict is a sequence of [name, config]       *)
(* entries in insertion order.  A config keeps the rule's expression and   *)
(* severity (the description is never read by the engine).                 *)
(***************************************************************************)
Severities == <<"critical", "high", "medium", "low">>

Rule(name, regex, ci, severity) ==
    [name |-> name, config |-> [regex |-> regex, ci |-> ci, severity |-> severity]]

\* (?i)(k1|k2|...)\s*[:=]\s*["'](value)["']
KeyedQuoted(keywords, value) ==
    << Alt(keywords), Cls(Whitespace, 0, -1), Cls(KeySep, 1, 1), Cls(Whitespace, 0, -1),
       Cls(Quote, 1, 1), value, Cls(Quote, 1, 1) >>

LogCall == Alt({<<"l","o","g">>, <<"l","o","g","g","e","r">>, <<"p","r","i","n","t">>, <<"c","o","n","s","o","l","e",".","l","o","g">>})

\* \d{3}\.\d{3}\.\d{3}-\d{2}
CpfDigits ==
    << Cls(Digit, 3, 3), Lit(<<".">>), Cls(Digit, 3, 3), Lit(<<".">>), Cls(Digit, 3, 3),
       Lit(<<"-">>), Cls(Digit, 2, 2) >>

\* \d{4}[\s-]?\d{4}[\s-]?\d{4}[\s-]?\d{4}
CardDigits ==
    << Cls(Digit, 4, 4), Cls(Whitespace \cup {"-"}, 0, 1),
       Cls(Digit, 4, 4), Cls(Whitespace \cup {"-"}, 0, 1),
       Cls(Digit, 4, 4), Cls(Whitespace \cup {"-"}, 0, 1),
       Cls(Digit, 4, 4) >>

GENERAL_PATTERNS ==
    << Rule("passwords",
            KeyedQuoted({<<"p","a","s","s","w","o","r","d">>, <<"p","a","s","s","w","d">>, <<"p","w","d">>, <<"s","e","n","h","a">>}, NCls(Quote, 3, -1)),
            TRUE, "critical"),
       Rule("api_keys",
            KeyedQuoted({<<"a","p","i","_","k","e","y">>, <<"a","p","i","k","e","y">>, <<"a","p","i","-","k","e","y">>, <<"t","o","k","e","n">>, <<"a","u","t","h","_","t","o","k","e","n">>},
                        Cls(KeyChar, 20, -1)),
            TRUE, "critical"),
       Rule("private_keys",
            << Lit(<<"-","-","-","-","-","B","E","G","I","N"," ">>), Alt({<<"R","S","A"," ">>, <<"E","C"," ">>, <<>>}), Lit(<<"P","R","I","V","A","T","E"," ","K","E","Y","-","-","-","-","-">>) >>,
            FALSE, "critical"),
       Rule("jwt_tokens",
            << Lit(<<"e","y","J">>), Cls(KeyChar \cup {"="}, 1, -1), Lit(<<".">>),
               Lit(<<"e","y","J">>), Cls(KeyChar \cup {"="}, 1, -1), Lit(<<".">>),
               Cls(KeyChar \cup {".", "+", "/", "="}, 0, -1) >>,
            FALSE, "high") >>

BRAZILIAN_PATTERNS ==
    << Rule("credit_card", <<WordBoundary>> \o CardDigits \o <<WordBoundary>>, FALSE, "critical"),
       Rule("cpf", <<WordBoundary>> \o CpfDigits \o <<WordBoundary>>, FALSE, "high"),
       Rule("cnpj",
            << WordBoundary, Cls(Digit, 2, 2), Lit(<<".">>), Cls(Digit, 3, 3), Lit(<<".">>),
               Cls(Digit, 3, 3), Lit(<<"/">>), Cls(Digit, 4, 4), Lit(<<"-">>), Cls(Digit, 2, 2),
               WordBoundary >>,
            FALSE, "high"),
       Rule("pix_key",
            KeyedQuoted({<<"p","i","x","_","k","e","y">>, <<"c","h","a","v","e","_","p","i","x">>, <<"c","h","a","v","e","p","i","x">>}, NCls(Quote, 1, -1)),
            TRUE, "high") >>

CLOUDWALK_PATTERNS ==
    << Rule("merchant_id",
            KeyedQuoted({<<"m","e","r","c","h","a","n","t","_","i","d">>, <<"m","e","r","c","h","a","n","t","i","d">>, <<"m","e","r","c","h","a","n","t","-","i","d">>}, NCls(Quote, 1, -1)),
            TRUE, "high"),
       Rule("transaction_id",
            KeyedQuoted({<<"t","r","a","n","s","a","c","t","i","o","n","_","i","d">>, <<"t","r","a","n","s","a","c","t","i","o","n","i","d">>, <<"t","x","n","_","i","d">>}, NCls(Quote, 1, -1)),
            TRUE, "medium"),
       Rule("terminal_id",
            KeyedQuoted({<<"t","e","r","m","i","n","a","l","_","i","d">>, <<"t","e","r","m","i","n","a","l","i","d">>}, NCls(Quote, 1, -1)),
            TRUE, "medium"),
       Rule("webhook_secret",
            KeyedQuoted({<<"w","e","b","h","o","o","k","_","s","e","c","r","e","t">>, <<"w","e","b","h","o","o","k","-","s","e","c","r","e","t">>}, NCls(Quote, 1, -1)),
            TRUE, "critical") >>

CLOUD_PATTERNS ==
    << Rule("aws_key", << Lit(<<"A","K","I","A">>), Cls(Digit \cup Upper, 16, 16) >>, FALSE, "critical"),
       Rule("gcp_key", << Lit(<<"A","I","z","a">>), Cls(KeyChar, 35, 35) >>, FALSE, "critical"),
       Rule("anthropic_key", << Lit(<<"s","k","-","a","n","t","-","a","p","i","0","3","-">>), Cls(KeyChar, 95, 95) >>, FALSE, "critical"),
       Rule("openai_key", << Lit(<<"s","k","-">>), Cls(Alnum, 48, 48) >>, FALSE, "critical") >>

LOG_PATTERNS ==
    << Rule("log_cpf", <<LogCall, AnyChar(0, -1)>> \o CpfDigits, TRUE, "high"),
       Rule("log_card", <<LogCall, AnyChar(0, -1)>> \o CardDigits, TRUE, "critical"),
       Rule("log_password",
            << LogCall, AnyChar(0, -1), Alt({<<"p","a","s","s","w","o","r","d">>, <<"s","e","n","h","a">>}) >>,
            TRUE, "high") >>

\* The names of a dict, in order
Keys(dict) == [i \in DOMAIN dict |-> dict[i].name]

\* dict[name]
Lookup(dict, name) == dict[CHOOSE i \in DOMAIN dict : dict[i].name = name].config

\* dict.update that keeps the definition a name already has
update_keeps_first(dict, other) ==
    dict \o SelectSeq(other, LAMBDA e : \A i \in DOMAIN dict : dict[i].name # e.name)

RECURSIVE DictUpdate(_, _)
\* dict.update(other): an existing name keeps its place and takes the new
\* config, a new name is appended
DictUpdate(dict, other) ==
    IF other = <<>> THEN dict
    ELSE LET e == Head(other)
             hit == {i \in DOMAIN dict : dict[i].name = e.name}
         IN  DictUpdate(IF hit = {} THEN Append(dict, e)
                        ELSE [i \in DOMAIN dict |-> IF i \in hit THEN e ELSE dict[i]],
                        Tail(other))

\* The class with its five category dicts
SecurityPatterns ==
    [GENERAL_PATTERNS |-> GENERAL_PATTERNS, BRAZILIAN_PATTERNS |-> BRAZILIAN_PATTERNS,
     CLOUDWALK_PATTERNS |-> CLOUDWALK_PATTERNS, CLOUD_PATTERNS |-> CLOUD_PATTERNS,
     LOG_PATTERNS |-> LOG_PATTERNS]

\* get_all_patterns of a class cls
merged(cls) ==
    DictUpdate(DictUpdate(DictUpdate(DictUpdate(DictUpdate(<<>>,
        cls.GENERAL_PATTERNS), cls.BRAZILIAN_PATTERNS), cls.CLOUDWALK_PATTERNS),
        cls.CLOUD_PATTERNS), cls.LOG_PATTERNS)

get_all_patterns == merged(SecurityPatterns)

\* The result of a call: the value returned, or the error raised
Returned(value) == [error |-> "none", value |-> value]
Raised(error) == [error |-> error, value |-> <<>>]

\* One more compiled rule ahead of the rest of the loop's result
WithCompiled(e, rest) ==
    IF rest.error # "none" THEN rest ELSE Returned(<<e>> \o rest.value)

RECURSIVE compile_from(_, _)
\* The loop of get_compiled_patterns from entry k on: re.error is caught and
\* the rule left out, any other error leaves the loop and the function
compile_from(all_patterns, k) ==
    IF k > Len(all_patterns) THEN Returned(<<>>)
    ELSE IF CompileOutcome(all_patterns[k].config.regex) = "ok"
         THEN WithCompiled(all_patterns[k], compile_from(all_patterns, k + 1))
         ELSE IF CompileOutcome(all_patterns[k].config.regex) = "re.error"
              THEN compile_from(all_patterns, k + 1)
              ELSE Raised(CompileOutcome(all_patterns[k].config.regex))

\* get_compiled_patterns of a class cls
compiled(cls) == compile_from(merged(cls), 1)

\* The compiled dict of the catalog as written, every rule of which compiles
get_compiled_patterns == compiled(SecurityPatterns).value

\* patterns.py: the denylist of is_false_positive, as written
false_positives ==
    << <<"e","x","a","m","p","l","e",".","c","o","m">>, <<"t","e","s","t","@","t","e","s","t",".","c","o","m">>, <<"0","0","0",".","0","0","0",".","0","0","0","-","0","0">>,
       <<"0","0","0","0","-","0","0","0","0","-","0","0","0","0","-","0","0","0","0">>, <<"1","2","3","-","4","5","-","6","7","8","9">>,
       <<"Y","O","U","R","_","A","P","I","_","K","E","Y">>, <<"Y","O","U","R","_","T","O","K","E","N">>, <<"R","E","P","L","A","C","E","_","M","E">>,
       <<"x","x","x">>, <<"y","y","y">>, <<"z","z","z">>,
       <<"t","e","s","t","_","k","e","y">>, <<"t","e","s","t","_","t","o","k","e","n">>, <<"f","a","k","e","_">> >>

\* The text is lower-cased, the tokens are compared as written
is_false_positive(matched_text, pattern_name) ==
    LET matched_lower == LowerStr(matched_text)
    IN  \E k \in DOMAIN false_positives : Contains(matched_lower, false_positives[k])

(***************************************************************************)
(* scanner.py                                                              *)
(***************************************************************************)
Stars == <<"*","*","*">>

\* text[:4] + "***" + text[4:]: the tail is kept whole
mask_keeps_tail(text) ==
    IF Len(text) <= 8 THEN Stars
    ELSE Prefix(text, 4) \o Stars \o SubSeq(text, 5, Len(text))

\* `if len(text) < 8`: a text of 8 characters is shown whole around the marker
mask_reveals_short(text) ==
    IF Len(text) < 8 THEN Stars
    ELSE Prefix(text, 4) \o Stars \o Suffix(text, 4)

_mask_sensitive(text) ==
    IF Len(text) <= 8 THEN Stars
    ELSE Prefix(text, 4) \o Stars \o Suffix(text, 4)

ViolationMatch(pattern_name, file_path, line_number, matched_text, context, severity) ==
    [pattern_name |-> pattern_name, file_path |-> file_path, line_number |-> line_number,
     matched_text |-> matched_text, context |-> context, severity |-> severity]

IGNORE_DIRS ==
    { <<"n","o","d","e","_","m","o","d","u","l","e","s">>, <<".","g","i","t">>, <<"_","_","p","y","c","a","c","h","e","_","_">>, <<".","v","e","n","v">>, <<"v","e","n","v">>, <<"d","i","s","t">>,
      <<"b","u","i","l","d">>, <<".","n","e","x","t">>, <<".","c","a","c","h","e">> }

SCAN_EXTENSIONS ==
    { <<".","j","s">>, <<".","t","s">>, <<".","j","s","x">>, <<".","t","s","x">>, <<".","p","y">>, <<".","e","n","v">>, <<".","j","s","o","n">>, <<".","y","a","m","l">>,
      <<".","y","m","l">>, <<".","c","o","n","f">>, <<".","c","o","n","f","i","g">>, <<".","s","h">>, <<".","b","a","s","h">>, <<".","l","o","g">>, <<".","t","x","t">>, <<".","m","d">> }

\* The names scan_environment skips
ENV_SKIP == { <<"P","A","T","H">>, <<"H","O","M","E">>, <<"U","S","E","R">>, <<"S","H","E","L","L">>, <<"P","W","D">>, <<"L","A","N","G">> }

RECURSIVE Flatten(_)
\* The concatenation of a sequence of sequences
Flatten(seqs) == IF seqs = <<>> THEN <<>> ELSE Head(seqs) \o Flatten(Tail(seqs))

\* Path.suffix of a file name: from its last dot, unless that dot leads or ends the name
PathSuffix(name) ==
    LET dots == {i \in DOMAIN name : name[i] = "."}
    IN  IF dots = {} THEN <<>>
        ELSE LET last == SetMax(dots)
             IN  IF last > 1 /\ last < Len(name) THEN SubSeq(name, last, Len(name)) ELSE <<>>

\* str(path) of an absolute path given as its components
PathStr(path) == <<"/">> \o Join(path, <<"/">>)

(***************************************************************************)
(* The host: a directory tree, the environment and the process table.      *)
(* denied on a directory makes listing it raise PermissionError, on a file *)
(* makes opening it raise.                                                 *)
(***************************************************************************)
Dir(name, denied, children) ==
    [name |-> name, kind |-> "dir", denied |-> denied, children |-> children, lines |-> <<>>,
     fault |-> "none"]
File(name, denied, lines) ==
    [name |-> name, kind |-> "file", denied |-> denied, children |-> <<>>, lines |-> lines,
     fault |-> "none"]

\* A directory whose listing raises an OSError that is no PermissionError
\* (FileNotFoundError: it was removed after its parent was listed)
Vanished(dir) == [dir EXCEPT !.fault = "listing"]

\* An entry whose inspection (is_dir, a stat call) raises PermissionError
Sealed(node) == [node EXCEPT !.fault = "stat"]

\* A line of more than 100 characters with a match on either side of the cut
LongLine ==
    <<" "," ","p","w","d","=","\"","f","i","r","s","t","1","1","1","\""," ">> \o [i \in 1..90 |-> "."] \o <<" ","p","w","d","=","\"","s","e","c","o","n","d","2","2","\"","\n">>

Disk ==
    Dir(<<>>, FALSE, <<
      Dir(<<"d","a","t","a">>, FALSE, <<
        File(<<"a","p","p",".","p","y">>, FALSE, << <<"p","a","s","s","w","o","r","d"," ","="," ","\"","v","e","r","y","s","e","c","r","e","t","1","\"","\n">> >>),
        File(<<"n","o","t","e","s",".","b","i","n">>, FALSE, << <<"p","w","d","=","\"","b","i","n","a","r","y","s","e","c","r","e","t","\"","\n">> >>),
        File(<<".","e","n","v">>, FALSE, << <<"s","e","n","h","a","=","\"","d","o","t","e","n","v","p","w","\"","\n">> >>),
        Dir(<<"n","o","d","e","_","m","o","d","u","l","e","s">>, FALSE, <<
          File(<<"l","i","b",".","j","s">>, FALSE, << <<"p","w","d","=","\"","v","e","n","d","o","r","e","d","1","\"","\n">> >>) >>),
        Dir(<<"l","o","c","k","e","d">>, TRUE, <<
          File(<<"z",".","p","y">>, FALSE, << <<"p","w","d","=","\"","l","o","c","k","e","d","p","w","\"","\n">> >>) >>),
        File(<<"s","e","c","r","e","t",".","t","x","t">>, TRUE, << <<"p","w","d","=","\"","u","n","r","e","a","d","a","b","l","e","\"","\n">> >>),
        Dir(<<"s","r","c">>, FALSE, <<
          File(<<"t",".","p","y">>, FALSE,
               << <<"p","w","d","=","\"","Y","O","U","R","_","A","P","I","_","K","E","Y","\"","\n">>, <<"p","w","d","=","\"","x","x","x","\"","\n">>, <<" "," ","c","p","f"," ","1","2","3",".","4","5","6",".","7","8","9","-","0","9"," ","\n">>,
                  LongLine >>),
          Dir(<<"b","u","i","l","d">>, FALSE, <<
            File(<<"o","u","t",".","j","s">>, FALSE, << <<"t","x","n","_","i","d","=","\"","4","2","\"","\n">> >>),
            Dir(<<"d","e","e","p">>, FALSE, <<
              File(<<"x",".","p","y">>, FALSE, << <<"s","e","n","h","a",":"," ","\"","a","b","c","d","e","f","1","2","\"","\n">> >>) >>) >>) >>) >>),
      Dir(<<"s","r","v">>, FALSE, <<
        File(<<"a",".","p","y">>, FALSE, << <<"p","w","d","=","\"","f","i","r","s","t","f","i","l","e","1","\"","\n">> >>),
        Vanished(Dir(<<"g","o","n","e">>, FALSE, <<
          File(<<"g",".","p","y">>, FALSE, << <<"p","w","d","=","\"","g","o","n","e","f","i","l","e","1","1","\"","\n">> >>) >>)),
        File(<<"b",".","p","y">>, FALSE, << <<"p","w","d","=","\"","l","a","s","t","f","i","l","e","2","2","\"","\n">> >>) >>),
      Dir(<<"m","n","t">>, FALSE, <<
        File(<<"o","n","e",".","p","y">>, FALSE, << <<"p","w","d","=","\"","o","n","e","f","i","l","e","1","1","1","\"","\n">> >>),
        Sealed(Dir(<<"s","e","a","l","e","d">>, FALSE, <<
          File(<<"s",".","p","y">>, FALSE, << <<"p","w","d","=","\"","s","e","a","l","e","d","f","i","l","e","\"","\n">> >>) >>)),
        File(<<"t","w","o",".","p","y">>, FALSE, << <<"p","w","d","=","\"","t","w","o","f","i","l","e","2","2","2","\"","\n">> >>) >>) >>)

NoNode ==
    [name |-> <<>>, kind |-> "none", denied |-> FALSE, children |-> <<>>, lines |-> <<>>,
     fault |-> "none"]

RECURSIVE ResolveIn(_, _)
ResolveIn(node, path) ==
    IF path = <<>> THEN node
    ELSE LET hit == {i \in DOMAIN node.children : node.children[i].name = Head(path)}
         IN  IF hit = {} THEN NoNode
             ELSE ResolveIn(node.children[CHOOSE i \in hit : TRUE], Tail(path))

\* The directory entry a path names, NoNode when there is none
Resolve(path) == ResolveIn(Disk, path)

\* The root paths an audit may be given
ScanPaths ==
    { << <<"d","a","t","a">> >>, << <<"d","a","t","a">>, <<"s","r","c">> >>, << <<"d","a","t","a">>, <<"s","r","c">>, <<"b","u","i","l","d">> >>,
      << <<"s","r","v">> >>, << <<"m","n","t">> >>, << <<"n","o","w","h","e","r","e">> >> }

EnvVar(key, value) == [key |-> key, value |-> value]

EnvCandidates ==
    << EnvVar(<<"P","A","T","H">>, <<"p","w","d","=","\"","h","u","n","t","e","r","2","2","\"">>),
       EnvVar(<<"D","B","_","P","A","S","S","W","O","R","D">>, <<"l","e","t","m","e","i","n","1","2","3">>),
       EnvVar(<<"S","T","U","B">>, <<"p","w","d","=","\"","x","x","x","\"">>),
       EnvVar(<<"l","o","g","s","e","n","h","a">>, <<"l","o","g","s","e","n","h","a","=">>),
       EnvVar(<<"C","P","F">>, <<"1","2","3",".","4","5","6",".","7","8","9","-","0","9">>),
       EnvVar(<<"N","O","T","E">>, <<"p","r","i","n","t","(","s","e","n","h","a","=","\"","a","b","c","\"",")">>),
       EnvVar(<<"T","W","I","C","E">>, <<"p","w","d","=","\"","a","l","p","h","a","1","1","1","\""," ","p","w","d","=","\"","b","e","t","a","2","2","2","2","\"">>) >>

Proc(pid, name, cmdline) ==
    [pid |-> pid, name |-> name, cmdline |-> cmdline, fate |-> "alive"]

\* A process that exits after the pids were listed: reading it raises NoSuchProcess
Gone(proc) == [proc EXCEPT !.fate = "gone"]

\* A process of another user: reading its command line raises AccessDenied
Inaccessible(proc) == [proc EXCEPT !.fate = "denied"]

\* A process whose reading raises another error (an OSError from /proc)
Unreadable(proc) == [proc EXCEPT !.fate = "error"]

ProcCandidates ==
    << Proc(101, <<"m","y","s","q","l">>, << <<"m","y","s","q","l">>, <<"-","-","p","w","d">>, <<"=">>, <<"'","s","3","c","r","e","t","p","w","'">>, <<"p","w","d","=","\"","o","t","h","e","r","1","2","3","4","\"">> >>),
       Gone(Proc(105, <<"s","s","h">>, << <<"s","s","h">>, <<"p","w","d","=","\"","v","a","n","i","s","h","e","d","1","\"">> >>)),
       Proc(102, <<"c","u","r","l">>, << <<"c","u","r","l">>, <<"p","w","d","=","\"","Y","O","U","R","_","A","P","I","_","K","E","Y","\"">> >>),
       Inaccessible(Proc(106, <<"v","a","u","l","t">>, << <<"v","a","u","l","t">>, <<"p","w","d","=","\"","r","o","o","t","o","n","l","y","1","\"">> >>)),
       Proc(103, <<"k","t","h","r","e","a","d","d">>, <<>>),
       Unreadable(Proc(107, <<"z","o","m","b","i","e">>, << <<"z","o","m","b","i","e">>, <<"p","w","d","=","\"","b","r","o","k","e","n","p","w","1","\"">> >>)),
       Proc(104, <<"d","e","m","o">>, << <<"d","e","m","o">>, <<"p","w","d","=","\"","f","a","k","e","_","p","w","\"">> >>) >>

\* The most environment variables and processes of a host
MaxEnvVars == 2
MaxProcs == 2

\* The sub-sequences of s with at most n elements, order kept
SubSeqsUpTo(s, n) ==
    { [i \in 1..Cardinality(picked) |->
          s[CHOOSE j \in picked : Cardinality({k \in picked : k < j}) = i - 1]]
      : picked \in {p \in SUBSET DOMAIN s : Cardinality(p) <= n} }

(***************************************************************************)
(* State                                                                   *)
(***************************************************************************)
VARIABLES
    environ,        \* os.environ as scan_environment finds it, in iteration order
    proctable,      \* the process table as scan_processes finds it, in order
    pc,             \* where run_audit is
    scanner,        \* the SecurityScanner of the run
    walk,           \* scan_filesystem: the files _walk_directory has still to yield
    env_todo,       \* scan_environment: the variables still to visit
    proc_todo,      \* scan_processes: the processes still to visit
    violations,     \* the running collector's local list
    all_violations, \* run_full_audit's list
    by_severity,    \* run_audit's grouping
    exit_code,      \* run_audit's return value, -1 before it returns
    emitted,        \* history: for every finding appended, the raw text it came from
    scanned,        \* history: the files handed to scan_file
    fp_calls,       \* history: the is_false_positive calls of the last step
    walk_error,     \* scan_filesystem: the error _walk_directory raises after its last file
    raised,         \* where the exception run_audit caught came from, "none" without one
    inspected,      \* history: the pids whose command line scan_processes has read
    call,           \* the last direct call of a function of the engine, with its result
    interval,       \* watch_mode's interval argument, in seconds
    earlier         \* history: what the call or the run before this one returned

vars == << environ, proctable, pc, scanner, walk, env_todo, proc_todo,
           violations, all_violations, by_severity, exit_code, emitted, scanned, fp_calls,
           walk_error, raised, inspected, call, interval, earlier >>

NoCall == [op |-> "none"]

\* Nothing was called before
NoEarlier == [kind |-> "none"]

\* --interval as argparse fills it in when the option is not given
DefaultInterval == 1800

NoScanner ==
    [root_path |-> <<>>, patterns |-> <<>>, violations |-> <<>>,
     ignore_dirs |-> {}, scan_extensions |-> {}]

EmptyGrouping == [s \in Range(Severities) |-> <<>>]

\* Before run_audit is called
BeforeAudit ==
    /\ environ = <<>>
    /\ proctable = <<>>
    /\ pc = "idle"
    /\ scanner = NoScanner
    /\ walk = <<>>
    /\ env_todo = <<>>
    /\ proc_todo = <<>>
    /\ violations = <<>>
    /\ all_violations = <<>>
    /\ by_severity = EmptyGrouping
    /\ exit_code = -1
    /\ emitted = <<>>
    /\ scanned = <<>>
    /\ fp_calls = <<>>
    /\ walk_error = "none"
    /\ raised = "none"
    /\ inspected = <<>>
    /\ call = NoCall
    /\ earlier = NoEarlier

Init ==
    /\ BeforeAudit
    /\ interval = DefaultInterval

(***************************************************************************)
(* SecurityScanner                                                         *)
(***************************************************************************)
\* __init__: the compiled dict is kept by its names, a config is read from
\* the compiled catalog
SecurityScanner(root_path) ==
    [root_path |-> root_path,
     patterns |-> Keys(get_compiled_patterns),
     violations |-> <<>>,
     ignore_dirs |-> IGNORE_DIRS,
     scan_extensions |-> SCAN_EXTENSIONS]

Config(name) == Lookup(get_compiled_patterns, name)

\* `if item in self.ignore_dirs`: a path is compared with the names, so no
\* directory is pruned
walk_compares_paths(self, path, item) == Append(path, item.name) \in self.ignore_dirs

\* `if item.name in self.ignore_dirs`
is_ignored(self, path, item) == item.name \in self.ignore_dirs

\* What a piece of the generator does: the files it yields, in order, and the
\* error it then raises ("none" when it ends normally)
Walked(yielded, error) == [yielded |-> yielded, error |-> error]

\* A piece followed by the rest of the loop: an error ends the loop
WalkThen(first, rest) ==
    IF first.error # "none" THEN first
    ELSE Walked(first.yielded \o rest.yielded, rest.error)

\* `except PermissionError: pass` around the whole loop of one directory
ExceptPermissionError(r) ==
    IF r.error = "PermissionError" THEN Walked(r.yielded, "none") ELSE r

RECURSIVE _walk_directory(_, _), walk_items(_, _, _), walk_item(_, _, _)
\* The body of the loop for one entry of the directory at path
walk_item(self, path, item) ==
    IF item.fault = "stat" THEN Walked(<<>>, "PermissionError")
    ELSE IF item.kind = "dir"
         THEN IF is_ignored(self, path, item) THEN Walked(<<>>, "none")
              ELSE _walk_directory(self, Append(path, item.name))
         ELSE IF PathSuffix(item.name) \in self.scan_extensions
              THEN Walked(<< Append(path, item.name) >>, "none")
              ELSE Walked(<<>>, "none")

\* The loop over the entries k.. of the directory at path
walk_items(self, path, k) ==
    IF k > Len(Resolve(path).children) THEN Walked(<<>>, "none")
    ELSE WalkThen(walk_item(self, path, Resolve(path).children[k]),
                  walk_items(self, path, k + 1))

\* The generator for the directory at path.  path.iterdir() raises
\* PermissionError for a denied directory and another OSError for one that
\* is gone or is no directory.
_walk_directory(self, path) ==
    ExceptPermissionError(
        IF Resolve(path).denied THEN Walked(<<>>, "PermissionError")
        ELSE IF Resolve(path).fault = "listing" \/ Resolve(path).kind # "dir"
             THEN Walked(<<>>, "OSError")
             ELSE walk_items(self, path, 1))

\* The matches of one pattern in text, each with the rule's name and severity
PatternMatches(name, config, text, found) ==
    [j \in DOMAIN found |->
        [pattern_name |-> name, severity |-> config.severity, raw |-> Group0(text, found[j])]]

\* The matches of every pattern in text, pattern by pattern
Matches(self, text) ==
    Flatten([k \in DOMAIN self.patterns |->
        PatternMatches(self.patterns[k], Config(self.patterns[k]), text,
                       FindIter(Config(self.patterns[k]), text))])

\* An entry: a finding v, the raw text it was built from, and whether the
\* false-positive filter flagged the match (a flagged match is not appended)
Entry(v, raw, source, key, flagged) ==
    [v |-> v, raw |-> raw, source |-> source, key |-> key, flagged |-> flagged]

Unflagged(entries) == SelectSeq(entries, LAMBDA e : ~e.flagged)

\* context=line.strip(): the line is not cut at 100 characters
file_entry_untruncated(file_path, n, line, m) ==
    Entry(ViolationMatch(m.pattern_name, PathStr(file_path), n, _mask_sensitive(m.raw),
                         Strip(line), m.severity),
          m.raw, "filesystem", <<>>, is_false_positive(m.raw, m.pattern_name))

\* What scan_file does with match m of line number n
FileEntry(file_path, n, line, m) ==
    Entry(ViolationMatch(m.pattern_name, PathStr(file_path), n, _mask_sensitive(m.raw),
                         Prefix(Strip(line), 100), m.severity),
          m.raw, "filesystem", <<>>, is_false_positive(m.raw, m.pattern_name))

LineEntries(file_path, n, line, ms) ==
    [j \in DOMAIN ms |-> FileEntry(file_path, n, line, ms[j])]

\* The lines of an opened file, numbered from 1; a file that cannot be
\* opened raises inside the try and yields nothing
FileEntries(self, file_path, node) ==
    IF node.denied THEN <<>>
    ELSE Flatten([n \in DOMAIN node.lines |->
                    LineEntries(file_path, n, node.lines[n], Matches(self, node.lines[n]))])

\* scan_file: every match of the file with the filter's verdict; the
\* unflagged ones are the list it returns
scan_file(self, file_path) == FileEntries(self, file_path, Resolve(file_path))

\* scan_filesystem stops at the first file that cannot be read
stops_at_unreadable(todo) ==
    IF Resolve(Head(todo)).denied THEN <<>> ELSE Tail(todo)

\* scan_filesystem after scan_file has returned: the loop goes on with the
\* next file, whether or not the file could be read
after_file(todo) == Tail(todo)

EnvContext(key) == <<"E","n","v","i","r","o","n","m","e","n","t"," ","v","a","r","i","a","b","l","e",":"," ">> \o key
ProcContext(name) == <<"P","r","o","c","e","s","s",":"," ">> \o name

\* The skip-list compared with the lower-cased name
env_skipped_lowercase(key) == LowerStr(key) \in ENV_SKIP

\* Whether scan_environment skips the variable
env_skipped(key) == key \in ENV_SKIP

\* What scan_environment appends for a pattern found in the value
EnvEntry(key, value, name, config) ==
    Entry(ViolationMatch(name, <<"e","n","v","i","r","o","n","m","e","n","t">>, 0, key \o <<"=">> \o _mask_sensitive(value),
                         EnvContext(key), config.severity),
          value, "environment", key, FALSE)

EnvEntries(key, value, hits) ==
    [j \in DOMAIN hits |-> EnvEntry(key, value, hits[j], Config(hits[j]))]

\* scan_environment with the false-positive filter of the other collectors
scan_variable_filtered(self, key, value) ==
    IF env_skipped(key) THEN <<>>
    ELSE EnvEntries(key, value,
                    SelectSeq(self.patterns,
                              LAMBDA name : /\ Search(Config(name), value, 0) # NoMatch
                                            /\ ~is_false_positive(value, name)))

\* scan_environment with the finditer loop of the other collectors: a
\* finding per match
scan_variable_per_match(self, key, value) ==
    IF env_skipped(key) THEN <<>>
    ELSE EnvEntries(key, value,
                    Flatten([k \in DOMAIN self.patterns |->
                               [j \in DOMAIN FindIter(Config(self.patterns[k]), value) |->
                                  self.patterns[k]]]))

\* scan_environment, one variable: a finding per pattern found in the value;
\* the filter is not called
scan_variable(self, key, value) ==
    IF env_skipped(key) THEN <<>>
    ELSE EnvEntries(key, value,
                    SelectSeq(self.patterns,
                              LAMBDA name : Search(Config(name), value, 0) # NoMatch))

\* What scan_processes does with match m of a command line
ProcEntry(proc, m) ==
    Entry(ViolationMatch(m.pattern_name, <<"p","r","o","c","e","s","s">>, proc.pid, _mask_sensitive(m.raw),
                         ProcContext(proc.name), m.severity),
          m.raw, "process", <<>>, is_false_positive(m.raw, m.pattern_name))

ProcEntries(proc, ms) == [j \in DOMAIN ms |-> ProcEntry(proc, ms[j])]

\* proc.info['cmdline'] as process_iter(['pid', 'name', 'cmdline']) fills it:
\* AccessDenied leaves the missing value, which the loop passes over
info_cmdline(proc) == IF proc.fate = "denied" THEN <<>> ELSE proc.cmdline

\* Whether process_iter yields the process: one that is gone is left out
is_yielded(proc) == proc.fate # "gone"

\* scan_processes matching every argument on its own instead of the joined
\* command line
scan_process_each_argument(self, proc) ==
    IF ~is_yielded(proc) \/ proc.fate = "error" \/ info_cmdline(proc) = <<>> THEN <<>>
    ELSE ProcEntries(proc, Flatten([a \in DOMAIN info_cmdline(proc) |->
                                       Matches(self, info_cmdline(proc)[a])]))

\* scan_processes, one process: every match of the joined command line with
\* the filter's verdict; an empty or missing command line is passed over
scan_process(self, proc) ==
    IF ~is_yielded(proc) \/ proc.fate = "error" \/ info_cmdline(proc) = <<>> THEN <<>>
    ELSE ProcEntries(proc, Matches(self, Join(info_cmdline(proc), <<" ">>)))

\* scan_processes ends at the first process that cannot be read as it is
race_ends_scan(todo) ==
    IF Head(todo).fate # "alive" THEN <<>> ELSE Tail(todo)

\* scan_processes after one process: the loop goes on, unless process_iter
\* raised an error of another kind, which the outer handler answers by ending
\* the loop with the findings gathered so far
after_process(todo) ==
    IF Head(todo).fate = "error" THEN <<>> ELSE Tail(todo)

Findings(entries) == [i \in DOMAIN entries |-> entries[i].v]

\* get_violations_by_severity over the scanner's own list
get_violations_by_severity(self) ==
    [s \in Range(Severities) |-> SelectSeq(self.violations, LAMBDA v : v.severity = s)]

\* A violation of a severity outside the four is passed over
grouping_never_raises(self) == FALSE

\* result[violation.severity] raises KeyError for a severity outside the four
grouping_raises(self) ==
    \E i \in DOMAIN self.violations : self.violations[i].severity \notin Range(Severities)

(***************************************************************************)
(* run_audit, step by step                                                 *)
(***************************************************************************)
\* scan_filesystem starts the generator
StartWalk(r) ==
    /\ walk' = r.yielded
    /\ walk_error' = r.error

\* all_violations = more + all_violations: the new findings go to the front
extend_front(list, more) == more \o list

\* all_violations.extend(more)
extend(list, more) == list \o more

\* run_audit up to the first directory listing of run_full_audit.  Listing a
\* root that is no directory raises, which run_audit answers with status 3.
RunAudit(scan_path) ==
    /\ pc = "idle"
    /\ scanner' = SecurityScanner(scan_path)
    /\ IF Resolve(scan_path).kind = "dir"
       THEN /\ pc' = "filesystem"
            /\ StartWalk(_walk_directory(scanner', scan_path))
            /\ exit_code' = exit_code
            /\ raised' = raised
       ELSE /\ pc' = "done"
            /\ walk' = <<>>
            /\ walk_error' = "none"
            /\ exit_code' = 3
            /\ raised' = "filesystem"
    /\ UNCHANGED << environ, proctable, env_todo, proc_todo, violations, all_violations,
                    by_severity, emitted, scanned, fp_calls, inspected, call, interval, earlier >>

\* The unflagged entries are appended to the collector's list; the entries
\* of a collector that calls the filter are the filter calls of the step
Emit(tried, filtered) ==
    /\ violations' = violations \o Findings(Unflagged(tried))
    /\ emitted' = emitted \o Unflagged(tried)
    /\ fp_calls' = IF filtered THEN tried ELSE <<>>

\* scan_filesystem: one turn of its loop
ScanNextFile ==
    /\ pc = "filesystem"
    /\ walk # <<>>
    /\ Emit(scan_file(scanner, Head(walk)), TRUE)
    /\ scanned' = Append(scanned, Head(walk))
    /\ walk' = after_file(walk)
    /\ UNCHANGED << environ, proctable, pc, scanner, env_todo, proc_todo,
                    all_violations, by_severity, exit_code, walk_error, raised,
                    inspected, call, interval, earlier >>

\* The generator raises an error that is no PermissionError: nothing between
\* _walk_directory and run_audit catches it, so scan_filesystem and
\* run_full_audit end with their lists and run_audit returns 3
FilesystemRaises ==
    /\ pc = "filesystem"
    /\ walk = <<>>
    /\ walk_error # "none"
    /\ violations' = <<>>
    /\ fp_calls' = <<>>
    /\ exit_code' = 3
    /\ raised' = "filesystem"
    /\ pc' = "done"
    /\ UNCHANGED << environ, proctable, scanner, walk, env_todo, proc_todo, all_violations,
                    by_severity, emitted, scanned, walk_error, inspected, call, interval, earlier >>

\* scan_filesystem returns, run_full_audit extends its list and calls
\* scan_environment, which reads os.environ
FilesystemDone(env) ==
    /\ pc = "filesystem"
    /\ walk = <<>>
    /\ walk_error = "none"
    /\ all_violations' = extend(all_violations, violations)
    /\ violations' = <<>>
    /\ environ' = env
    /\ env_todo' = env
    /\ fp_calls' = <<>>
    /\ pc' = "environment"
    /\ UNCHANGED << proctable, scanner, walk, proc_todo,
                    by_severity, exit_code, emitted, scanned, walk_error, raised,
                    inspected, call, interval, earlier >>

\* scan_environment: one turn of its loop
ScanNextVariable ==
    /\ pc = "environment"
    /\ env_todo # <<>>
    /\ Emit(scan_variable(scanner, Head(env_todo).key, Head(env_todo).value), FALSE)
    /\ env_todo' = Tail(env_todo)
    /\ UNCHANGED << environ, proctable, pc, scanner, walk, proc_todo,
                    all_violations, by_severity, exit_code, scanned, walk_error, raised,
                    inspected, call, interval, earlier >>

\* scan_environment returns, run_full_audit extends its list and calls
\* scan_processes, which lists the processes
EnvironmentDone(procs) ==
    /\ pc = "environment"
    /\ env_todo = <<>>
    /\ all_violations' = extend(all_violations, violations)
    /\ violations' = <<>>
    /\ proctable' = procs
    /\ proc_todo' = procs
    /\ pc' = "processes"
    /\ UNCHANGED << environ, scanner, walk, env_todo,
                    by_severity, exit_code, emitted, scanned, fp_calls, walk_error, raised,
                    inspected, call, interval, earlier >>

\* scan_processes: one turn of its loop
ScanNextProcess ==
    /\ pc = "processes"
    /\ proc_todo # <<>>
    /\ Emit(scan_process(scanner, Head(proc_todo)), TRUE)
    /\ inspected' = IF Head(proc_todo).fate = "alive"
                    THEN Append(inspected, Head(proc_todo).pid)
                    ELSE inspected
    /\ proc_todo' = after_process(proc_todo)
    /\ UNCHANGED << environ, proctable, pc, scanner, walk, env_todo,
                    all_violations, by_severity, exit_code, scanned, walk_error, raised,
                    call, interval, earlier >>

\* scan_processes returns and run_full_audit returns its list to run_audit
ProcessesDone ==
    /\ pc = "processes"
    /\ proc_todo = <<>>
    /\ all_violations' = extend(all_violations, violations)
    /\ violations' = <<>>
    /\ fp_calls' = <<>>
    /\ pc' = "report"
    /\ UNCHANGED << environ, proctable, scanner, walk, env_todo, proc_todo,
                    by_severity, exit_code, emitted, scanned, walk_error, raised,
                    inspected, call, interval, earlier >>

\* The status run_audit derives from the grouping and the returned list
exit_status(grouping, found) ==
    IF grouping["critical"] # <<>> THEN 2
    ELSE IF grouping["high"] # <<>> THEN 1
    ELSE IF found # <<>> THEN 0
    ELSE 0

\* The rest of run_audit: the report (sent only with a webhook, which nothing
\* before this step reads; the reporter is an outside service and may raise),
\* the grouping and the exit status
Report(discord_webhook, delivery_fails) ==
    /\ pc = "report"
    /\ IF (discord_webhook /\ delivery_fails) \/ grouping_raises(scanner)
       THEN /\ exit_code' = 3
            /\ by_severity' = by_severity
            /\ raised' = "report"
       ELSE /\ by_severity' = get_violations_by_severity(scanner)
            /\ exit_code' = exit_status(by_severity', all_violations)
            /\ raised' = raised
    /\ pc' = "done"
    /\ UNCHANGED << environ, proctable, scanner, walk, env_todo, proc_todo,
                    violations, all_violations, emitted, scanned, fp_calls, walk_error,
                    inspected, call, interval, earlier >>

Next ==
    \/ \E scan_path \in ScanPaths : RunAudit(scan_path)
    \/ ScanNextFile
    \/ FilesystemRaises
    \/ \E env \in SubSeqsUpTo(EnvCandidates, MaxEnvVars) : FilesystemDone(env)
    \/ ScanNextVariable
    \/ \E procs \in SubSeqsUpTo(ProcCandidates, MaxProcs) : EnvironmentDone(procs)
    \/ ScanNextProcess
    \/ ProcessesDone
    \/ \E discord_webhook \in BOOLEAN, delivery_fails \in BOOLEAN :
          Report(discord_webhook, delivery_fails)

Spec == Init /\ [][Next]_vars

(***************************************************************************)
(* run_full_audit called a second time on the same scanner, the sources    *)
(* being what they were at the first call                                  *)
(***************************************************************************)
\* The most environment variables, and the most processes, of a host that is
\* audited more than once
MaxRepeatSources == 1

\* A list the earlier call returned is used again
same_list(returned) == returned

\* `all_violations = []` and `violations = []` at the head of run_full_audit
\* and of every collector: a new list, whatever an earlier call returned
new_list(returned) == <<>>

\* The second call: run_full_audit up to the first directory listing
RunFullAuditAgain ==
    /\ pc = "report"
    /\ earlier = NoEarlier
    /\ earlier' = [kind |-> "call", returned |-> all_violations, scanner |-> scanner,
                   environ |-> environ, proctable |-> proctable]
    /\ all_violations' = new_list(all_violations)
    /\ violations' = new_list(all_violations)
    /\ StartWalk(_walk_directory(scanner, scanner.root_path))
    /\ emitted' = <<>>
    /\ scanned' = <<>>
    /\ fp_calls' = <<>>
    /\ inspected' = <<>>
    /\ pc' = "filesystem"
    /\ UNCHANGED << environ, proctable, scanner, env_todo, proc_todo, by_severity,
                    exit_code, raised, call, interval >>

\* os.environ and the process table as a call finds them: unchanged at the
\* second call
EnvironOfCall ==
    IF earlier = NoEarlier THEN SubSeqsUpTo(EnvCandidates, MaxRepeatSources)
    ELSE {earlier.environ}

ProcessesOfCall ==
    IF earlier = NoEarlier THEN SubSeqsUpTo(ProcCandidates, MaxRepeatSources)
    ELSE {earlier.proctable}

ReuseNext ==
    \/ \E scan_path \in ScanPaths : RunAudit(scan_path)
    \/ ScanNextFile
    \/ FilesystemRaises
    \/ \E env \in EnvironOfCall : FilesystemDone(env)
    \/ ScanNextVariable
    \/ \E procs \in ProcessesOfCall : EnvironmentDone(procs)
    \/ ScanNextProcess
    \/ ProcessesDone
    \/ RunFullAuditAgain

ReuseSpec == Init /\ [][ReuseNext]_vars

(***************************************************************************)
(* watch_mode: run_audit, sleep, and again                                 *)
(***************************************************************************)
\* Values of --interval: argparse takes any integer, a negative one included
Intervals == {-1, 0, DefaultInterval}

WatchInit ==
    /\ BeforeAudit
    /\ interval \in Intervals

\* time.sleep raises ValueError for a negative length
sleep_raises(seconds) == seconds < 0

\* The loop ends once a run has returned the error status
stops_on_error(status) == status # 3

\* `while True`, with the value run_audit returned dropped
keeps_watching(status) == TRUE

\* run_audit has returned; watch_mode prints and time.sleep starts
Sleep ==
    /\ pc = "done"
    /\ ~sleep_raises(interval)
    /\ pc' = "sleeping"
    /\ UNCHANGED << environ, proctable, scanner, walk, env_todo, proc_todo, violations,
                    all_violations, by_severity, exit_code, emitted, scanned, fp_calls,
                    walk_error, raised, inspected, call, interval, earlier >>

\* time.sleep raises: nothing catches the error, watch_mode and the program end
SleepRaises ==
    /\ pc = "done"
    /\ sleep_raises(interval)
    /\ pc' = "stopped"
    /\ UNCHANGED << environ, proctable, scanner, walk, env_todo, proc_todo, violations,
                    all_violations, by_severity, exit_code, emitted, scanned, fp_calls,
                    walk_error, raised, inspected, call, interval, earlier >>

\* time.sleep returns and the loop calls run_audit again, with the path it
\* was given: nothing of the run before is kept, its scanner included
NextAudit ==
    /\ pc = "sleeping"
    /\ keeps_watching(exit_code)
    /\ earlier' = [kind |-> "run", exit_code |-> exit_code, scan_path |-> scanner.root_path]
    /\ pc' = "idle"
    /\ scanner' = NoScanner
    /\ exit_code' = -1
    /\ raised' = "none"
    /\ all_violations' = new_list(all_violations)
    /\ violations' = new_list(all_violations)
    /\ by_severity' = EmptyGrouping
    /\ environ' = <<>>
    /\ proctable' = <<>>
    /\ emitted' = <<>>
    /\ scanned' = <<>>
    /\ fp_calls' = <<>>
    /\ inspected' = <<>>
    /\ UNCHANGED << walk, env_todo, proc_todo, walk_error, call, interval >>

\* The path of a run: the argument of watch_mode, the same at every call
PathsOfRun ==
    IF earlier.kind = "run" THEN {earlier.scan_path} ELSE ScanPaths

\* The webhook is an argument of watch_mode; it is drawn at the report, the
\* one step that reads it
WatchNext ==
    \/ \E scan_path \in PathsOfRun : RunAudit(scan_path)
    \/ ScanNextFile
    \/ FilesystemRaises
    \/ \E env \in SubSeqsUpTo(EnvCandidates, MaxRepeatSources) : FilesystemDone(env)
    \/ ScanNextVariable
    \/ \E procs \in SubSeqsUpTo(ProcCandidates, MaxRepeatSources) : EnvironmentDone(procs)
    \/ ScanNextProcess
    \/ ProcessesDone
    \/ \E discord_webhook \in BOOLEAN, delivery_fails \in BOOLEAN :
          Report(discord_webhook, delivery_fails)
    \/ Sleep
    \/ SleepRaises
    \/ NextAudit

\* The loop is sequential code: once run_audit has returned, time.sleep is
\* called and sleeps or raises, and once it has returned run_audit is called
WatchSpec ==
    /\ WatchInit
    /\ [][WatchNext]_vars
    /\ WF_vars(Sleep)
    /\ WF_vars(SleepRaises)
    /\ WF_vars(NextAudit)

(***************************************************************************)
(* Direct calls of the engine's functions, as a test makes them: the       *)
(* category dicts are class attributes a test can replace, and             *)
(* scanner.violations is a public field a test can fill.                   *)
(***************************************************************************)
CategoryNames ==
    <<"GENERAL_PATTERNS", "BRAZILIAN_PATTERNS", "CLOUDWALK_PATTERNS", "CLOUD_PATTERNS",
      "LOG_PATTERNS">>

\* A rule whose expression is the literal letter of category i, so that a
\* definition tells the category it was written in
Tagged(name, i) ==
    Rule(name, << Lit(<< <<"g", "b", "w", "c", "l">>[i] >>) >>, FALSE, Severities[1 + (i % 4)])

\* \d{3,2}: re.error, min repeat greater than max repeat
BadRepeat == Rule("bad_repeat", << Cls(Digit, 3, 2) >>, FALSE, "low")

\* \d{MAXREPEAT}: OverflowError, the repetition number is too large
HugeRepeat == Rule("huge_repeat", << Cls(Digit, MAXREPEAT, MAXREPEAT) >>, FALSE, "low")

\* The dicts a test gives category i
CategoryChoices(i) ==
    { <<>>,
      << Tagged("shared", i) >>,
      << Tagged("shared", i), Tagged("extra", i) >>,
      << BadRepeat, Tagged("shared", i) >>,
      << HugeRepeat, Tagged("extra", i) >> }

\* The classes a call is made on: the catalog as written and the test ones
TestClasses ==
    {SecurityPatterns} \cup
    { [GENERAL_PATTERNS |-> g, BRAZILIAN_PATTERNS |-> b, CLOUDWALK_PATTERNS |-> w,
       CLOUD_PATTERNS |-> c, LOG_PATTERNS |-> l] :
        g \in CategoryChoices(1), b \in CategoryChoices(2), w \in CategoryChoices(3),
        c \in CategoryChoices(4), l \in CategoryChoices(5) }

MaskTexts ==
    { Prefix(<<"s","u","p","e","r","s","e","c","r","e","t","1","2","3">>, n) : n \in 0..14 } \cup { <<"a","b","c">>, <<"1","2","3","4","5","6","7","8">>, <<"1","2","3","4","5","6","7","8","9">> }

\* The longest list a test gives get_violations_by_severity
MaxGrouped == 2

TestViolation(n, severity) ==
    ViolationMatch("passwords", <<"/","t",".","p","y">>, n, Stars, <<"p","w","d">>, severity)

\* The lists of at most MaxGrouped violations, of the four severities and of
\* one outside them
TestLists ==
    UNION { [1..n -> { TestViolation(1, s) : s \in Range(Severities) \cup {"info"} }]
            : n \in 0..MaxGrouped }

\* SecurityScanner(root_path) over the class cls: __init__ calls
\* get_compiled_patterns, whose error leaves the constructor
construct(cls, root_path) ==
    IF compiled(cls).error # "none" THEN Raised(compiled(cls).error)
    ELSE Returned([root_path |-> root_path, patterns |-> Keys(compiled(cls).value),
                   violations |-> <<>>, ignore_dirs |-> IGNORE_DIRS,
                   scan_extensions |-> SCAN_EXTENSIONS])

\* get_violations_by_severity as a call: the grouping, or KeyError
try_grouping(self) ==
    IF grouping_raises(self) THEN Raised("KeyError")
    ELSE Returned(get_violations_by_severity(self))

CallMaskSensitive(text) ==
    /\ call = NoCall
    /\ call' = [op |-> "_mask_sensitive", text |-> text, result |-> _mask_sensitive(text)]
    /\ UNCHANGED << environ, proctable, pc, scanner, walk, env_todo, proc_todo, violations,
                    all_violations, by_severity, exit_code, emitted, scanned, fp_calls,
                    walk_error, raised, inspected, interval, earlier >>

CallGetAllPatterns(cls) ==
    /\ call = NoCall
    /\ call' = [op |-> "get_all_patterns", cls |-> cls, result |-> merged(cls)]
    /\ UNCHANGED << environ, proctable, pc, scanner, walk, env_todo, proc_todo, violations,
                    all_violations, by_severity, exit_code, emitted, scanned, fp_calls,
                    walk_error, raised, inspected, interval, earlier >>

CallSecurityScanner(cls) ==
    /\ call = NoCall
    /\ call' = [op |-> "SecurityScanner", cls |-> cls, compiled |-> compiled(cls),
                result |-> construct(cls, << <<"d","a","t","a">> >>)]
    /\ UNCHANGED << environ, proctable, pc, scanner, walk, env_todo, proc_todo, violations,
                    all_violations, by_severity, exit_code, emitted, scanned, fp_calls,
                    walk_error, raised, inspected, interval, earlier >>

CallGetViolationsBySeverity(list) ==
    /\ call = NoCall
    /\ call' = [op |-> "get_violations_by_severity", violations |-> list,
                result |-> try_grouping([SecurityScanner(<< <<"d","a","t","a">> >>)
                                            EXCEPT !.violations = list])]
    /\ UNCHANGED << environ, proctable, pc, scanner, walk, env_todo, proc_todo, violations,
                    all_violations, by_severity, exit_code, emitted, scanned, fp_calls,
                    walk_error, raised, inspected, interval, earlier >>

UnitNext ==
    \/ \E text \in MaskTexts : CallMaskSensitive(text)
    \/ \E cls \in TestClasses : CallGetAllPatterns(cls)
    \/ \E cls \in TestClasses : CallSecurityScanner(cls)
    \/ \E list \in TestLists : CallGetViolationsBySeverity(list)

UnitSpec == Init /\ [][UnitNext]_vars

(***************************************************************************)
(* Properties                                                              *)
(***************************************************************************)
\* first 4 characters, the marker, last 4 characters
Redacted(raw) == SubSeq(raw, 1, 4) \o <<"*", "*", "*">> \o SubSeq(raw, Len(raw) - 3, Len(raw))

\* How many variables scan_environment has visited (a run that ends at the
\* root's listing visits none)
EnvVisited ==
    IF pc = "environment" THEN Len(environ) - Len(env_todo)
    ELSE IF pc \in {"processes", "report"} THEN Len(environ)
    ELSE IF pc = "done" /\ raised # "filesystem" THEN Len(environ)
    ELSE 0

\* C1: no field of an emitted finding (matched_text, context, file_path) holds
\* in full the raw value it was built from, when that value is longer than 8
\* characters
C1_NoRawValueInAnyField ==
    \A i \in DOMAIN emitted :
        LET e == emitted[i]
        IN  Len(e.raw) > 8 =>
              /\ ~Contains(e.v.matched_text, e.raw)
              /\ ~Contains(e.v.context, e.raw)
              /\ ~Contains(e.v.file_path, e.raw)

\* The part of matched_text the masker produced
MaskedPart(e) ==
    IF e.source = "environment"
    THEN SubSeq(e.v.matched_text, Len(e.key) + 2, Len(e.v.matched_text))
    ELSE e.v.matched_text

\* matched_text has the redacted form: the redacted match for a filesystem or
\* process finding, KEY=<redacted value> for an environment finding
RedactedForm(e) ==
    IF e.source = "environment"
    THEN e.v.matched_text = e.key \o <<"=">> \o Redacted(e.raw)
    ELSE e.v.matched_text = Redacted(e.raw)

C3_BucketsPartitionAudit ==
    (pc = "done" /\ exit_code # 3) =>
        /\ DOMAIN by_severity = {"critical", "high", "medium", "low"}
        /\ \A i \in DOMAIN all_violations :
              \E j \in DOMAIN by_severity[all_violations[i].severity] :
                  by_severity[all_violations[i].severity][j] = all_violations[i]
        /\ Len(by_severity["critical"]) + Len(by_severity["high"])
             + Len(by_severity["medium"]) + Len(by_severity["low"]) = Len(all_violations)

HasSeverity(found, s) == \E i \in DOMAIN found : found[i].severity = s

\* C4: run_audit returns 2 when the audit found a critical violation, else 1
\* when it found a high one, else 0, and 3 only when the audit raised
C4_ExitStatusFromFindings ==
    (pc = "done" /\ exit_code # 3) =>
        exit_code = IF HasSeverity(all_violations, "critical") THEN 2
                    ELSE IF HasSeverity(all_violations, "high") THEN 1
                    ELSE 0

\* C5: no filesystem or process finding comes from a match that contains a
\* token of the denylist
C5_PlaceholderNeverReported ==
    \A i \in DOMAIN emitted :
        emitted[i].source \in {"filesystem", "process"} =>
            ~\E k \in DOMAIN false_positives : Contains(emitted[i].raw, false_positives[k])

\* C6: every is_false_positive call answers true exactly when the text,
\* case-folded, contains a case-folded token of the denylist
C6_FilterIsCaseInsensitive ==
    \A i \in DOMAIN fp_calls :
        fp_calls[i].flagged =
            \E k \in DOMAIN false_positives :
                Contains(LowerStr(fp_calls[i].raw), LowerStr(false_positives[k]))

\* C7: every visited variable outside the skip-list has a finding for every
\* compiled pattern found in its value, placeholder or not
C7_EnvironmentUnfiltered ==
    \A j \in 1..EnvVisited :
        environ[j].key \notin ENV_SKIP =>
            \A k \in DOMAIN scanner.patterns :
                Search(Config(scanner.patterns[k]), environ[j].value, 0) # NoMatch =>
                    \E i \in DOMAIN emitted :
                        /\ emitted[i].source = "environment"
                        /\ emitted[i].key = environ[j].key
                        /\ emitted[i].v.pattern_name = scanner.patterns[k]

\* An environment finding whose value the filter would have flagged
C7_Witness ==
    \E i \in DOMAIN emitted :
        /\ emitted[i].source = "environment"
        /\ \E k \in DOMAIN false_positives :
              Contains(LowerStr(emitted[i].raw), false_positives[k])

\* C8: once the environment is scanned, DB_PASSWORD=letmein123 has a finding
C8_CredentialNameReported ==
    (EnvVisited = Len(environ) /\ pc \in {"processes", "report", "done"}
       /\ \E j \in DOMAIN environ : environ[j] = EnvVar(<<"D","B","_","P","A","S","S","W","O","R","D">>, <<"l","e","t","m","e","i","n","1","2","3">>)) =>
        \E i \in DOMAIN emitted :
            emitted[i].source = "environment" /\ emitted[i].key = <<"D","B","_","P","A","S","S","W","O","R","D">>

\* C9: no finding is about a variable of the skip-list
C9_SkipListNeverReported ==
    \A i \in DOMAIN emitted :
        emitted[i].source = "environment" =>
            /\ emitted[i].key \notin { <<"P","A","T","H">>, <<"H","O","M","E">>, <<"U","S","E","R">>, <<"S","H","E","L","L">>, <<"P","W","D">>, <<"L","A","N","G">> }
            /\ \A key \in { <<"P","A","T","H">>, <<"H","O","M","E">>, <<"U","S","E","R">>, <<"S","H","E","L","L">>, <<"P","W","D">>, <<"L","A","N","G">> } :
                  emitted[i].v.context # <<"E","n","v","i","r","o","n","m","e","n","t"," ","v","a","r","i","a","b","l","e",":"," ">> \o key

\* A skip-listed variable whose value holds a credential pattern has been visited
C9_Witness ==
    \E j \in 1..EnvVisited :
        /\ environ[j].key = <<"P","A","T","H">>
        /\ Search(Config("passwords"), environ[j].value, 0) # NoMatch

\* C10 as stated: no scanned file has a deny-listed directory anywhere on its path
C10_NoDeniedDirOnPath ==
    \A i \in DOMAIN scanned :
        \A d \in 1..(Len(scanned[i]) - 1) : scanned[i][d] \notin IGNORE_DIRS

\* C10 amended: no scanned file has a deny-listed directory on its path below
\* the root path of the scan
C10_NoDeniedDirBelowRoot ==
    \A i \in DOMAIN scanned :
        \A d \in (Len(scanner.root_path) + 1)..(Len(scanned[i]) - 1) :
            scanned[i][d] \notin IGNORE_DIRS

\* The walk from /data is over: it met node_modules next to the root and
\* build two levels down, each holding a file with an allowed extension
C10_Witness ==
    /\ pc = "environment"
    /\ scanner.root_path = << <<"d","a","t","a">> >>
    /\ scanned # <<>>
    /\ Resolve(<< <<"d","a","t","a">>, <<"n","o","d","e","_","m","o","d","u","l","e","s">>, <<"l","i","b",".","j","s">> >>).kind = "file"
    /\ Resolve(<< <<"d","a","t","a">>, <<"s","r","c">>, <<"b","u","i","l","d">>, <<"d","e","e","p">>, <<"x",".","p","y">> >>).kind = "file"

\* run_full_audit has returned its list to run_audit
AuditReturned == pc = "report" \/ (pc = "done" /\ raised # "filesystem")

\* The findings of one collector, in the order it appended them
FindingsOf(source) == Findings(SelectSeq(emitted, LAMBDA e : e.source = source))

\* The names of category i of the class of the last call
CategoryKeys(i) == Range(Keys(call.cls[CategoryNames[i]]))

\* C12: a rule that fails to compile is dropped and nothing else: building a
\* scanner over any class succeeds, and the compiled dict holds exactly the
\* rules of the merged catalog whose expression compiles
C12_CompileFailureDropsOnlyThatRule ==
    call.op = "SecurityScanner" =>
        /\ call.compiled.error = "none"
        /\ call.result.error = "none"
        /\ \A i \in DOMAIN merged(call.cls) :
              CompileOutcome(merged(call.cls)[i].config.regex) = "ok" =>
                  \E j \in DOMAIN call.compiled.value :
                      call.compiled.value[j] = merged(call.cls)[i]
        /\ \A j \in DOMAIN call.compiled.value :
              /\ CompileOutcome(call.compiled.value[j].config.regex) = "ok"
              /\ \E i \in DOMAIN merged(call.cls) :
                    call.compiled.value[j] = merged(call.cls)[i]

\* C13: the names of get_all_patterns are the names of the five categories
\* together, each once, and a name has the definition of the last category,
\* in the order generic, Brazilian, CloudWalk, cloud, logging, that holds it
C13_LaterCategoryWins ==
    call.op = "get_all_patterns" =>
        /\ Range(Keys(call.result)) = UNION { CategoryKeys(i) : i \in 1..5 }
        /\ \A j, k \in DOMAIN call.result :
              call.result[j].name = call.result[k].name => j = k
        /\ \A k \in DOMAIN call.result :
              call.result[k].config =
                  Lookup(call.cls[CategoryNames[
                             SetMax({i \in 1..5 : call.result[k].name \in CategoryKeys(i)})]],
                         call.result[k].name)

\* get_all_patterns was called on a class with a name that two categories
\* define differently
C13_Witness ==
    /\ call.op = "get_all_patterns"
    /\ \E i, j \in 1..5 :
          /\ i < j
          /\ \E name \in CategoryKeys(i) \cap CategoryKeys(j) :
                Lookup(call.cls[CategoryNames[i]], name)
                    # Lookup(call.cls[CategoryNames[j]], name)

\* C14: mask gives "***" for a text of at most 8 characters, and otherwise
\* the first 4 characters, "***" and the last 4 characters;
\* "supersecret123" becomes "supe***t123"
C14_MaskShortOrEnds ==
    call.op = "_mask_sensitive" =>
        /\ Len(call.text) <= 8 => call.result = <<"*", "*", "*">>
        /\ Len(call.text) > 8 =>
              call.result = SubSeq(call.text, 1, 4) \o <<"*", "*", "*">>
                              \o SubSeq(call.text, Len(call.text) - 3, Len(call.text))
        /\ call.text = <<"s","u","p","e","r","s","e","c","r","e","t","1","2","3">> => call.result = <<"s","u","p","e","*","*","*","t","1","2","3">>

\* mask was called on "supersecret123"
C14_Witness ==
    /\ call.op = "_mask_sensitive"
    /\ call.text = <<"s","u","p","e","r","s","e","c","r","e","t","1","2","3">>

\* C17: get_violations_by_severity over a list with a violation of a severity
\* outside critical, high, medium, low raises an error; it returns no grouping
C17_UnknownSeverityRaises ==
    (/\ call.op = "get_violations_by_severity"
     /\ \E i \in DOMAIN call.violations :
           call.violations[i].severity \notin {"critical", "high", "medium", "low"}) =>
        /\ call.result.error # "none"
        /\ call.result.value = <<>>

\* get_violations_by_severity was called on a list with a violation of a
\* known severity followed by one of an unknown severity
C17_Witness ==
    /\ call.op = "get_violations_by_severity"
    /\ Len(call.violations) = 2
    /\ call.violations[1].severity = "critical"
    /\ call.violations[2].severity = "info"

\* The findings C15 expects of one rule on line number n of the file at path:
\* one for every match the filter does not flag
ExpectedOfRule(path, n, line, name, config) ==
    LET kept == SelectSeq(FindIter(config, line),
                          LAMBDA m : ~is_false_positive(Group0(line, m), name))
    IN  [j \in DOMAIN kept |->
            [pattern_name |-> name, file_path |-> PathStr(path), line_number |-> n,
             matched_text |-> _mask_sensitive(Group0(line, kept[j])),
             context |-> Prefix(Strip(line), 100), severity |-> config.severity]]

ExpectedOfLine(path, n, line) ==
    Flatten([k \in DOMAIN get_compiled_patterns |->
                ExpectedOfRule(path, n, line, get_compiled_patterns[k].name,
                               get_compiled_patterns[k].config)])

\* Line by line from number 1, rule by rule, match by match; nothing for a
\* file that cannot be opened
ExpectedOfFile(path) ==
    IF Resolve(path).denied THEN <<>>
    ELSE Flatten([n \in DOMAIN Resolve(path).lines |->
                     ExpectedOfLine(path, n, Resolve(path).lines[n])])

\* C15: the findings scan_file returns for a file are one ViolationMatch per
\* line, compiled pattern and non-overlapping match the filter does not flag,
\* with the pattern name, the path, the 1-based line number, the masked
\* match, the stripped line cut at 100 characters and the rule's severity;
\* the file with the single line password = "verysecret1" has exactly one
\* finding, a critical one
C15_OneFindingPerUnflaggedMatch ==
    /\ (pc = "filesystem" /\ scanned # <<>>) =>
          /\ Findings(Unflagged(fp_calls)) = ExpectedOfFile(scanned[Len(scanned)])
          /\ Len(violations) >= Len(Unflagged(fp_calls))
          /\ SubSeq(violations, Len(violations) - Len(Unflagged(fp_calls)) + 1,
                    Len(violations)) = Findings(Unflagged(fp_calls))
    /\ (\E i \in DOMAIN scanned : scanned[i] = << <<"d","a","t","a">>, <<"a","p","p",".","p","y">> >>) =>
          /\ Cardinality({i \in DOMAIN emitted : emitted[i].v.file_path = <<"/","d","a","t","a","/","a","p","p",".","p","y">>}) = 1
          /\ \A i \in DOMAIN emitted :
                emitted[i].v.file_path = <<"/","d","a","t","a","/","a","p","p",".","p","y">> => emitted[i].v.severity = "critical"

\* scan_file has just returned for /data/src/t.py, after /data/app.py: one
\* match was flagged, one rule matched twice on one line, and that line was
\* cut at 100 characters
C15_Witness ==
    /\ pc = "filesystem"
    /\ scanned # <<>>
    /\ scanned[1] = << <<"d","a","t","a">>, <<"a","p","p",".","p","y">> >>
    /\ scanned[Len(scanned)] = << <<"d","a","t","a">>, <<"s","r","c">>, <<"t",".","p","y">> >>
    /\ \E i \in DOMAIN fp_calls : fp_calls[i].flagged
    /\ \E i, j \in DOMAIN fp_calls :
          /\ i < j
          /\ ~fp_calls[i].flagged /\ ~fp_calls[j].flagged
          /\ fp_calls[i].v.pattern_name = fp_calls[j].v.pattern_name
          /\ fp_calls[i].v.line_number = fp_calls[j].v.line_number
          /\ Len(fp_calls[i].v.context) = 100
          /\ Len(Strip(LongLine)) > 100

\* C16: the collectors run one after the other, filesystem, environment,
\* process, each once, and run_full_audit returns their outputs joined in
\* that order, so its length is the sum of theirs
C16_CollectorsInOrder ==
    /\ \A i, j \in DOMAIN emitted :
          i < j =>
              \/ emitted[i].source = "filesystem"
              \/ emitted[j].source = "process"
              \/ emitted[i].source = emitted[j].source
    /\ pc = "environment" => all_violations = FindingsOf("filesystem")
    /\ pc = "processes" =>
          all_violations = FindingsOf("filesystem") \o FindingsOf("environment")
    /\ AuditReturned =>
          /\ all_violations = FindingsOf("filesystem") \o FindingsOf("environment")
                                \o FindingsOf("process")
          /\ Len(all_violations) = Len(FindingsOf("filesystem"))
                + Len(FindingsOf("environment")) + Len(FindingsOf("process"))

\* run_full_audit has returned findings of all three collectors
C16_Witness ==
    /\ AuditReturned
    /\ \A source \in {"filesystem", "environment", "process"} : FindingsOf(source) # <<>>
    /\ Len(all_violations) >= 3

RECURSIVE FilesUnder(_, _)
\* The paths of all files below the directory node at path
FilesUnder(node, path) ==
    UNION { IF node.children[i].kind = "file"
            THEN { Append(path, node.children[i].name) }
            ELSE FilesUnder(node.children[i], Append(path, node.children[i].name))
            : i \in DOMAIN node.children }

\* The directory named by the first d components of path p cannot be walked:
\* listing or inspecting it raises
Fails(p, d) ==
    Resolve(SubSeq(p, 1, d)).denied \/ Resolve(SubSeq(p, 1, d)).fault # "none"

\* The files with an allowed extension below root that are in the subtree of
\* no deny-listed directory and of no directory that fails
EligibleOutsidePruned(root) ==
    { p \in FilesUnder(Resolve(root), root) :
        /\ PathSuffix(p[Len(p)]) \in SCAN_EXTENSIONS
        /\ ~Fails(p, Len(root))
        /\ \A d \in (Len(root) + 1)..(Len(p) - 1) :
              p[d] \notin IGNORE_DIRS /\ ~Fails(p, d) }

\* C18: a permission error for one directory prunes that directory's subtree
\* only: once the walk is over, every eligible file outside the subtrees of
\* the deny-listed and the failing directories has been scanned
C18_PermissionErrorPrunesOnlySubtree ==
    (pc \in {"environment", "processes"} \/ AuditReturned) =>
        \A p \in EligibleOutsidePruned(scanner.root_path) :
            \E i \in DOMAIN scanned : scanned[i] = p

\* C19: a file that cannot be opened ends neither scan_filesystem nor the
\* walk: every file the walk yields is handed to scan_file, no finding comes
\* from the unreadable file, and the findings of the files before and after it
\* are in scan_filesystem's result
C19_ReadFailureSkipsOnlyThatFile ==
    /\ \A i \in DOMAIN emitted :
          emitted[i].source = "filesystem" =>
              \E j \in DOMAIN scanned :
                  /\ PathStr(scanned[j]) = emitted[i].v.file_path
                  /\ ~Resolve(scanned[j]).denied
    /\ pc = "filesystem" =>
          /\ scanned \o walk = _walk_directory(scanner, scanner.root_path).yielded
          /\ violations = FindingsOf("filesystem")
    /\ pc = "environment" =>
          /\ scanned = _walk_directory(scanner, scanner.root_path).yielded
          /\ all_violations = FindingsOf("filesystem")

\* scan_filesystem has returned findings of a file scanned before and of a
\* file scanned after one that could not be opened
C19_Witness ==
    /\ pc = "environment"
    /\ \E i, j, k \in DOMAIN scanned :
          /\ i < j /\ j < k
          /\ Resolve(scanned[j]).denied
          /\ \E a, b \in DOMAIN all_violations :
                /\ all_violations[a].file_path = PathStr(scanned[i])
                /\ all_violations[b].file_path = PathStr(scanned[k])

\* C20: a process that is gone or inaccessible when it is read yields no
\* finding and does not end the scan: the findings gathered stay, and every
\* live process of the enumeration is inspected (up to a process whose
\* reading raises another error, which ends the loop)
C20_ProcessRaceSkipsOnlyThatProcess ==
    /\ \A i \in DOMAIN emitted :
          emitted[i].source = "process" =>
              \A j \in DOMAIN proctable :
                  proctable[j].pid = emitted[i].v.line_number => proctable[j].fate = "alive"
    /\ pc = "processes" => violations = FindingsOf("process")
    /\ AuditReturned =>
          \A j \in DOMAIN proctable :
              (proctable[j].fate = "alive" /\ \A k \in 1..j : proctable[k].fate # "error") =>
                  \E i \in DOMAIN inspected : inspected[i] = proctable[j].pid

\* The scan is over: a process that was gone or inaccessible came before a
\* live one, and the live one has its finding
C20_Witness ==
    /\ AuditReturned
    /\ \E j, k \in DOMAIN proctable :
          /\ j < k
          /\ proctable[j].fate \in {"gone", "denied"}
          /\ proctable[k].fate = "alive"
          /\ \E i \in DOMAIN all_violations :
                /\ all_violations[i].file_path = <<"p","r","o","c","e","s","s">>
                /\ all_violations[i].line_number = proctable[k].pid

\* C11: a failure inside a collector is caught at the collector's boundary:
\* whenever run_audit is done over a root that is a directory, run_full_audit
\* has returned, and its result holds every finding the collectors appended
C11_CollectorFailureContained ==
    (pc = "done" /\ Resolve(scanner.root_path).kind = "dir") =>
        /\ raised # "filesystem"
        /\ all_violations = Findings(emitted)

\* The findings of the environment for a variable and a rule
EnvFindingsFor(key, name) ==
    { i \in DOMAIN emitted : /\ emitted[i].source = "environment"
                             /\ emitted[i].key = key
                             /\ emitted[i].v.pattern_name = name }

\* C21: for every variable scan_environment has visited and every compiled
\* pattern there is one finding when the variable is not on the skip-list
\* and the pattern is found in its value, however often, and none
\* otherwise; every finding of the environment names the file path
\* "environment", line 0, KEY=mask(value), "Environment variable: KEY" and
\* the severity of its rule.
C21_OneFindingPerVariableAndPattern ==
    /\ \A i \in DOMAIN emitted :
          emitted[i].source = "environment" =>
             LET v == emitted[i].v
                 key == emitted[i].key
             IN  /\ v.file_path = <<"e","n","v","i","r","o","n","m","e","n","t">>
                 /\ v.line_number = 0
                 /\ v.matched_text = key \o <<"=">> \o _mask_sensitive(emitted[i].raw)
                 /\ v.context = <<"E","n","v","i","r","o","n","m","e","n","t"," ","v","a","r","i","a","b","l","e",":"," ">> \o key
                 /\ v.pattern_name \in Range(scanner.patterns)
                 /\ v.severity = Lookup(get_all_patterns, v.pattern_name).severity
                 /\ \E j \in 1..EnvVisited :
                       environ[j].key = key /\ environ[j].value = emitted[i].raw
    /\ \A j \in 1..EnvVisited : \A k \in DOMAIN scanner.patterns :
          Cardinality(EnvFindingsFor(environ[j].key, scanner.patterns[k]))
             = IF /\ environ[j].key \notin ENV_SKIP
                  /\ Search(Config(scanner.patterns[k]), environ[j].value, 0) # NoMatch
               THEN 1 ELSE 0

\* Reached: a visited variable whose value holds two matches of one rule has
\* its one finding for that rule
C21_Witness ==
    \E j \in 1..EnvVisited : \E k \in DOMAIN scanner.patterns :
       /\ Len(FindIter(Config(scanner.patterns[k]), environ[j].value)) >= 2
       /\ Cardinality(EnvFindingsFor(environ[j].key, scanner.patterns[k])) = 1

\* The findings of rule name in the command line cmd_str of process proc:
\* one per match of finditer that the filter does not flag
ExpectedOfCommand(proc, cmd_str, name, config) ==
    LET kept == SelectSeq(FindIter(config, cmd_str),
                          LAMBDA m : ~is_false_positive(Group0(cmd_str, m), name))
    IN  [j \in DOMAIN kept |->
            [pattern_name |-> name, file_path |-> <<"p","r","o","c","e","s","s">>, line_number |-> proc.pid,
             matched_text |-> _mask_sensitive(Group0(cmd_str, kept[j])),
             context |-> <<"P","r","o","c","e","s","s",":"," ">> \o proc.name, severity |-> config.severity]]

\* Rule by rule over the arguments joined by single spaces
ExpectedOfProcess(proc) ==
    Flatten([k \in DOMAIN get_compiled_patterns |->
                ExpectedOfCommand(proc, Join(proc.cmdline, <<" ">>),
                                  get_compiled_patterns[k].name,
                                  get_compiled_patterns[k].config)])

\* The findings of scan_processes that carry the process id pid
ProcessFindingsFor(pid) ==
    SelectSeq(FindingsOf("process"), LAMBDA v : v.line_number = pid)

\* C22: while scan_processes runs, every process it has inspected that has a
\* non-empty command line has, in order, one finding per compiled pattern and
\* non-overlapping match of the arguments joined by single spaces that the
\* filter does not flag, with file path "process", the process id as line
\* number, the masked match, "Process: <name>" and the rule's severity; a
\* process with an empty or missing command line has no finding, and the
\* collector's list holds nothing else.
C22_OneFindingPerUnflaggedCommandMatch ==
    pc = "processes" =>
       /\ violations = FindingsOf("process")
       /\ \A i \in DOMAIN violations :
             \E j \in DOMAIN proctable : violations[i].line_number = proctable[j].pid
       /\ \A j \in DOMAIN proctable :
             ProcessFindingsFor(proctable[j].pid)
                = IF /\ proctable[j].pid \in Range(inspected)
                     /\ proctable[j].cmdline # <<>>
                  THEN ExpectedOfProcess(proctable[j])
                  ELSE <<>>

\* Reached: scan_processes has inspected a process whose joined command line
\* holds two matches of one rule, one of them across arguments, and has both
\* findings, and a process with an empty command line
C22_Witness ==
    /\ pc = "processes"
    /\ \E j \in DOMAIN proctable :
          /\ proctable[j].pid \in Range(inspected)
          /\ Len(proctable[j].cmdline) > 2
          /\ Len(ProcessFindingsFor(proctable[j].pid)) = 2
    /\ \E j \in DOMAIN proctable :
          /\ proctable[j].pid \in Range(inspected)
          /\ proctable[j].cmdline = <<>>

\* C23: the collectors and run_full_audit leave the scanner's fields
\* (patterns, ignore_dirs, scan_extensions, violations) as __init__ set them;
\* a collector starts with an empty list of its own and run_full_audit
\* returns exactly what its collectors found during this call; a second
\* run_full_audit on the same scanner over unchanged sources leaves the
\* scanner as it was and returns a sequence equal to the first.
C23_NoStateSharedAcrossCalls ==
    /\ pc # "idle" =>
          /\ scanner = SecurityScanner(scanner.root_path)
          /\ scanner.violations = <<>>
    /\ (pc = "filesystem" /\ scanned = <<>>) =>
          (violations = <<>> /\ all_violations = <<>>)
    /\ pc = "filesystem" => violations = FindingsOf("filesystem")
    /\ pc = "environment" => violations = FindingsOf("environment")
    /\ pc = "processes" => violations = FindingsOf("process")
    /\ pc \in {"filesystem", "environment", "processes"} =>
          all_violations \o violations = Findings(emitted)
    /\ pc = "report" => all_violations = Findings(emitted)
    /\ earlier.kind = "call" =>
          /\ scanner = earlier.scanner
          /\ pc = "report" =>
                /\ environ = earlier.environ
                /\ proctable = earlier.proctable
                /\ all_violations = earlier.returned

\* Reached: the second run_full_audit on a scanner has returned, with
\* findings of the filesystem and of another source, as the first had
C23_Witness ==
    /\ earlier.kind = "call"
    /\ pc = "report"
    /\ FindingsOf("filesystem") # <<>>
    /\ FindingsOf("environment") \o FindingsOf("process") # <<>>
    /\ earlier.returned # <<>>

\* A run of watch mode holds nothing of the run before it: its scanner is as
\* __init__ builds it, it starts with empty lists, and the list
\* run_full_audit returns holds what the collectors of this run appended
RunIsFresh ==
    /\ pc # "idle" =>
          /\ scanner = SecurityScanner(scanner.root_path)
          /\ scanner.violations = <<>>
    /\ (pc = "filesystem" /\ scanned = <<>>) =>
          (violations = <<>> /\ all_violations = <<>>)
    /\ pc \in {"report", "done", "sleeping", "stopped"} =>
          all_violations = IF raised = "filesystem" THEN <<>> ELSE Findings(emitted)

\* run_audit has been called again after a sleep
AuditStartedAgain ==
    /\ earlier.kind = "run"
    /\ pc = "idle"

\* C24 as stated, for any interval: in watch mode every run is fresh, every
\* run_audit that has returned, with whatever status, is followed by the
\* sleep, and every sleep by another run_audit.
C24_WatchRepeatsForAnyInterval ==
    /\ []RunIsFresh
    /\ (pc = "done") ~> (pc = "sleeping")
    /\ (pc = "sleeping") ~> AuditStartedAgain

\* C24 for an interval time.sleep takes: in watch mode with a non-negative
\* interval every run is fresh, every run_audit that has returned, with
\* whatever status, is followed by the sleep, and every sleep by another
\* run_audit.
C24_WatchRepeatsForValidInterval ==
    /\ []RunIsFresh
    /\ (pc = "done" /\ interval >= 0) ~> (pc = "sleeping")
    /\ (pc = "sleeping") ~> AuditStartedAgain

\* Reached: a run that followed one that ended with status 3 has gone
\* through its collectors and returned findings to run_audit
C24_Witness ==
    /\ earlier.kind = "run"
    /\ earlier.exit_code = 3
    /\ interval >= 0
    /\ pc = "report"
    /\ all_violations # <<>>

=============================================================================
